---- MODULE Spec2Model ----
(***************************************************************************)
(* A model of the GNOSIS DGGS agent of the COP exporter plugin             *)
(* (src/gnosis_dggs_agent.py), of the STAC exporter                        *)
(* (src/stac_cop_exporter.py) and of the parts of the dialog that drive    *)
(* them (src/cop_stac_dialog.py).                                          *)
(*                                                                         *)
(* Python values are modelled as follows.  An optional value (a key that   *)
(* may be missing from a dict, or None) is a set with at most one element: *)
(* {} is None / absent, {v} is the value v.  Python truthiness is TruthyNum *)
(* and TruthyStr; `a or b` is PyOr.                                        *)
(***************************************************************************)
EXTENDS Integers, Sequences, FiniteSets, TLC

\* ------------------------------------------------------------------ bounds
MaxCoord == 2       \* coordinates (degrees) range over 0..MaxCoord

\* ------------------------------------------------------------ python values
Absent == {}

ZoneIds == {"A", "B"}

Coord == 0..MaxCoord

OptCoord == {Absent} \cup {{c} : c \in Coord}

OptId == {Absent} \cup {{z} : z \in ZoneIds}

Val(o) == CHOOSE v \in o : TRUE

\* bool(x) of an optional number: None and 0 are falsy
TruthyNum(o) == o # Absent /\ o # {0}

\* bool(x) of an optional zone id (the ids of the model are non-empty strings)
TruthyStr(o) == o # Absent

\* Python's `a or b` on optional numbers
PyOr(a, b) == IF TruthyNum(a) THEN a ELSE b

\* ------------------------------------------------------------------ extents
\* QgsRectangle in EPSG:4326
Extents ==
    {e \in [xMinimum : Coord, yMinimum : Coord, xMaximum : Coord, yMaximum : Coord] :
        e.xMinimum <= e.xMaximum /\ e.yMinimum <= e.yMaximum}

\* --------------------------------------------------- the zones-list document
\* One feature of zones.geojson: its id and the bound properties the resolver
\* probes, each under its short or its long key.
ZoneFeature(id, style, minLat, maxLat, minLon, maxLon) ==
    [id |-> id,
     min_lat       |-> IF style = "short" THEN minLat ELSE Absent,
     min_latitude  |-> IF style = "long"  THEN minLat ELSE Absent,
     max_lat       |-> IF style = "short" THEN maxLat ELSE Absent,
     max_latitude  |-> IF style = "long"  THEN maxLat ELSE Absent,
     min_lon       |-> IF style = "short" THEN minLon ELSE Absent,
     min_longitude |-> IF style = "long"  THEN minLon ELSE Absent,
     max_lon       |-> IF style = "short" THEN maxLon ELSE Absent,
     max_longitude |-> IF style = "long"  THEN maxLon ELSE Absent]

ZoneFeatures ==
    {ZoneFeature(id, style, a, b, c, d) :
        id \in OptId, style \in {"short", "long"},
        a \in OptCoord, b \in OptCoord, c \in OptCoord, d \in OptCoord}

SeqsUpTo(S, n) == UNION {[1..k -> S] : k \in 0..n}

\* ------------------------------------------------------ get_zones_for_extent
\* The four bounds as lines 208-211 extract them.
ZoneBounds(feature) ==
    [zone_min_lat |-> PyOr(feature.min_lat, feature.min_latitude),
     zone_max_lat |-> PyOr(feature.max_lat, feature.max_latitude),
     zone_min_lon |-> PyOr(feature.min_lon, feature.min_longitude),
     zone_max_lon |-> PyOr(feature.max_lon, feature.max_longitude)]

\* A mutant: a zone without usable bounds is left out instead of included.
ZoneMatchesDropsUnbounded(extent, feature) ==
    LET b == ZoneBounds(feature)
    IN  /\ TruthyNum(b.zone_min_lat) /\ TruthyNum(b.zone_max_lat)
        /\ TruthyNum(b.zone_min_lon) /\ TruthyNum(b.zone_max_lon)
        /\ ~ (\/ extent.xMaximum < Val(b.zone_min_lon)
              \/ extent.xMinimum > Val(b.zone_max_lon)
              \/ extent.yMaximum < Val(b.zone_min_lat)
              \/ extent.yMinimum > Val(b.zone_max_lat))

\* Lines 213-223: whether a feature that has an id is appended to matching_zones.
ZoneMatches(extent, feature) ==
    LET b == ZoneBounds(feature)
    IN  IF /\ TruthyNum(b.zone_min_lat) /\ TruthyNum(b.zone_max_lat)
           /\ TruthyNum(b.zone_min_lon) /\ TruthyNum(b.zone_max_lon)
        THEN ~ (\/ extent.xMaximum < Val(b.zone_min_lon)
                \/ extent.xMinimum > Val(b.zone_max_lon)
                \/ extent.yMaximum < Val(b.zone_min_lat)
                \/ extent.yMinimum > Val(b.zone_max_lat))
        ELSE TRUE

\* Lines 197-226: the loop over the listing's features, in listing order.
RECURSIVE FilterZones(_, _)
FilterZones(features, extent) ==
    IF features = <<>> THEN <<>>
    ELSE LET feature == Head(features)
             rest == FilterZones(Tail(features), extent)
         IN  IF ~ TruthyStr(feature.id) THEN rest
             ELSE IF ZoneMatches(extent, feature) THEN <<Val(feature.id)>> \o rest
             ELSE rest

\* The answers of the zones-list endpoint: a decoded document, or a failure of
\* the request (urlopen raises URLError or HTTPError, json.loads raises).
ListingFailures == {"url_error", "http_error", "json_error"}

ListingOk(features) == [kind |-> "ok", features |-> features]

ListingFailed(kind) == [kind |-> kind, features |-> <<>>]

\* No zones-list request was made.
NoListing == [kind |-> "none", features |-> <<>>]

\* Lines 183-231: every exception is turned into the empty list.
get_zones_for_extent(response, extent) ==
    IF response.kind = "ok" THEN FilterZones(response.features, extent) ELSE <<>>

\* ----------------------------------------------------------- data features
\* A GeoJSON feature of a zone's data.geojson, as far as the agent reads it:
\* whether it has a 'properties' mapping, the two zone-id properties, its id.
DataFeature(hasProps, dggsZoneId, zoneId, id) ==
    [has_properties |-> hasProps, dggs_zone_id |-> dggsZoneId,
     zone_id |-> zoneId, id |-> id]

FeatureA == DataFeature(TRUE, {"A"}, Absent, Absent)

FeatureB == DataFeature(TRUE, Absent, {"B"}, {"A"})

FeaturePool == {FeatureA, FeatureB}

MaxFeatures == 2    \* features in one zone's answer

MaxZones == 2       \* zones in a zones-list document (agent specifications)

MaxOps == 2         \* calls of the agent's operations in one behaviour

Bodies == SeqsUpTo(FeaturePool, MaxFeatures)

\* The answers of the zone-data endpoint.
\*   ok          a JSON object with a 'features' list
\*   no_features a JSON object without a 'features' key (or an empty one)
\*   bad_shape   valid JSON on which lines 73-74 raise TypeError (a number, or
\*               'features': null)
\*   http404, http_error (any other status), url_error (connection failure or
\*   timeout), json_error (a body that is not JSON)
HardKinds == {"http_error", "url_error", "json_error"}

ZoneResponses ==
    {[kind |-> "ok", features |-> b] : b \in Bodies}
    \cup {[kind |-> k, features |-> <<>>] :
            k \in {"no_features", "bad_shape", "http404"} \cup HardKinds}

\* Lines 131-169: the decoded document, or None for every exception.
NoData == [kind |-> "None", features |-> <<>>]

query_zone_data(response) ==
    IF response.kind \in {"http404"} \cup HardKinds THEN NoData ELSE response

\* A mutant: a 404 escapes query_zone_data and ends the loop.
FetchRaisesOn404(response) ==
    response.kind \in {"bad_shape", "http404"}

\* Lines 72-74: whether the loop body raises for this answer (then line 125
\* catches it and the query returns None).
FetchRaises(response) ==
    query_zone_data(response).kind = "bad_shape"

\* A mutant: the new features are put in front of the collected ones.
ExtendPrepends(all_features, zone_data) ==
    IF zone_data.kind = "ok" THEN zone_data.features \o all_features
    ELSE all_features

\* Lines 73-74: `if zone_data and 'features' in zone_data: extend`.
Extend(all_features, zone_data) ==
    IF zone_data.kind = "ok" THEN all_features \o zone_data.features
    ELSE all_features

\* What query_dggs_data returns.
NoneResult == [type |-> "None", features |-> <<>>]

FeatureCollection(features) == [type |-> "FeatureCollection", features |-> features]

\* last_error: None, or the message of the query that set it.  The field `query`
\* numbers the query_dggs_data call that wrote the message.
NoError == [kind |-> "None", query |-> 0]

Error(kind, q) == [kind |-> kind, query |-> q]

\* A mutant: the no-zones path returns None without recording its error.
NoZonesErrorStale(old, q) == old

\* Lines 56-57.
NoZonesError(old, q) == Error("no_zones", q)

\* ------------------------------------------------ get_dggs_zones_for_extent
\* Lines 252-257: the zone id a feature references, if any.
ReferencedZone(feature) ==
    IF ~ feature.has_properties THEN Absent
    ELSE IF TruthyStr(feature.dggs_zone_id) THEN feature.dggs_zone_id
    ELSE IF TruthyStr(feature.zone_id) THEN feature.zone_id
    ELSE feature.id

ReferencedZones(features) ==
    UNION {ReferencedZone(features[i]) : i \in 1..Len(features)}

IdRank(z) == IF z = "A" THEN 1 ELSE 2

RECURSIVE Sorted(_)
Sorted(S) ==
    IF S = {} THEN <<>>
    ELSE LET m == CHOOSE x \in S : \A y \in S : IdRank(x) <= IdRank(y)
         IN  <<m>> \o Sorted(S \ {m})

\* Lines 244-259, given what the second query returned.
get_dggs_zones_for_extent(result) ==
    IF result.type = "None" THEN <<>> ELSE Sorted(ReferencedZones(result.features))

\* ------------------------------------------------------ get_coverage_summary
NoSummary ==
    [success |-> FALSE, error |-> NoError, zone_count |-> -1, feature_count |-> -1,
     zones |-> <<>>]

\* Lines 297-302.
FailureSummary(err) ==
    [success |-> FALSE, error |-> err, zone_count |-> 0, feature_count |-> 0,
     zones |-> <<>>]

\* Lines 316-329 (the elevation statistics are not modelled).
SuccessSummary(features, zone_ids) ==
    [success |-> TRUE, error |-> NoError, zone_count |-> Len(zone_ids),
     feature_count |-> Len(features), zones |-> zone_ids]

\* ---------------------------------------------------- fetch_and_save_geojson
\* json.dump writes the document piece by piece: an opening, one piece per
\* feature, a closing.
Token(tok, feature) == [tok |-> tok, feature |-> feature]

RECURSIVE FeatureTokens(_)
FeatureTokens(features) ==
    IF features = <<>> THEN <<>>
    ELSE <<Token("feature", {Head(features)})>> \o FeatureTokens(Tail(features))

Dump(result) ==
    <<Token("open", {})>> \o FeatureTokens(result.features) \o <<Token("close", {})>>

NoFile == [exists |-> FALSE, content |-> <<>>]

FileWith(content) == [exists |-> TRUE, content |-> content]

\* Whether a file holds a whole document (what json.load would accept).
IsDocument(f) ==
    /\ f.exists
    /\ Len(f.content) >= 2
    /\ f.content[1].tok = "open"
    /\ f.content[Len(f.content)].tok = "close"
    /\ \A i \in 2..(Len(f.content) - 1) : f.content[i].tok = "feature"

Prefix(s, k) == SubSeq(s, 1, k)

\* Lines 358-369: what the destination holds after the write.  The outcome is
\* "ok", "open_error" (open raises, nothing is touched) or "dump_error" after k
\* pieces were written (open has truncated the file, json.dump or the closing
\* flush raises).
FileAfterWrite(f, doc, outcome, k) ==
    CASE outcome = "ok" -> FileWith(doc)
      [] outcome = "open_error" -> f
      [] OTHER -> FileWith(Prefix(doc, k))

\* ------------------------------------------------------------------- state
VARIABLES
    resolver,        \* a call of get_zones_for_extent on its own: its extent, the
                     \* listing it received and the zones it returned
    last_error,      \* GnosisDGGSAgent.last_error
    op,              \* the agent operation in progress, or the last one
    nops,            \* operations started so far
    pc,              \* where the operation stands
    qid,             \* number of the current query_dggs_data call
    extent,          \* the extent of the operation
    zones_to_query,  \* query_dggs_data: the zones to fetch
    all_features,    \* query_dggs_data: the features collected so far
    fetched,         \* the answers the zone-data requests of this query received
    listing,         \* the answer the zones-list request of this query received
    qresult,         \* what query_dggs_data returned
    qn,              \* get_coverage_summary: 1 in its own query, 2 in the query
                     \* of get_dggs_zones_for_extent
    s_result,        \* get_coverage_summary: its local `result`
    summary,         \* what get_coverage_summary returned
    file,            \* the file at output_path
    file_before,     \* the file at output_path when fetch_and_save_geojson began
    saved,           \* what fetch_and_save_geojson returned
    cancel           \* the Cancel button of the progress dialog

VARIABLES
    sanitize_call,   \* a call of sanitize_id on its own: its name and its outcome
    item_call,       \* a call of create_stac_item on its own: its metadata and
                     \* the item it returned
    exported_items,  \* STACCOPExporter.exported_items
    stac_dir,        \* the files under {output_dir}/stac_cop_export
    uuids,           \* the number of uuid4() calls so far
    now,             \* the clock
    xcall,           \* the exporter method that ran last and how it ended
    output_dir,      \* the archives and digest files in output_dir
    zcall,           \* create_zip_archive: where it stands, its locals, its result
    zip_runs,        \* the create_zip_archive calls that returned: the tree each
                     \* one walked and the archive it wrote
    dialog,          \* COPSTACDialog: its widgets and fields, and what the last
                     \* export_layers call did
    initial_dir,     \* the files under stac_cop_export when the exporter was made
    clamp_call,      \* the validation and clamping of query_gnosis_earth on its
                     \* own: the extent it was given and what came of it
    url_call         \* a call of build_query_url on an agent: its arguments and
                     \* its outcome

sessionVars == <<exported_items, stac_dir, uuids, now, xcall, initial_dir>>

archiveVars == <<output_dir, zcall, zip_runs>>

callVars == <<clamp_call, url_call>>

exporterVars == <<sanitize_call, item_call, sessionVars, archiveVars, dialog, callVars>>

\* No extent was given to query_gnosis_earth, no URL was asked for.
NoClampCall ==
    [done |-> FALSE, outcome |-> "none",
     given |-> [xMinimum |-> 0, yMinimum |-> 0, xMaximum |-> 0, yMaximum |-> 0],
     extent |-> [xMinimum |-> 0, yMinimum |-> 0, xMaximum |-> 0, yMaximum |-> 0]]

NoUrlCall ==
    [done |-> FALSE, method |-> "", raised |-> "none", extent |-> <<>>, dggs_crs |-> "",
     zone_id |-> "", url |-> <<>>]

InitCalls ==
    /\ clamp_call = NoClampCall
    /\ url_call = NoUrlCall

NoSanitizeCall == [done |-> FALSE, name |-> <<>>, raised |-> FALSE, value |-> <<>>]

NoItemCall == [done |-> FALSE, layer |-> <<>>, cop_metadata |-> <<>>, item |-> <<>>]

NoCall == [method |-> "__init__", raised |-> FALSE]

\* No export_layers call yet.
NoRun ==
    [done |-> FALSE, selected |-> <<>>, attempted |-> <<>>, failed |-> <<>>,
     messages |-> <<>>, raised |-> "none"]

\* No dialog is open.
NoDialog ==
    [layers |-> <<>>, checked |-> {}, output_dir |-> FALSE, create_zip |-> FALSE,
     iface |-> FALSE, gnosis_data_path |-> FALSE, accepted |-> FALSE, run |-> NoRun]

NoZipCall ==
    [pc |-> "idle", runs |-> 0, timestamp |-> 0, walked |-> <<>>, hash_value |-> <<>>]

\* STACCOPExporter.__init__ on a fresh output directory: no item, and the two
\* directories are made and empty.
InitSession ==
    /\ exported_items = <<>>
    /\ stac_dir = <<>>
    /\ uuids = 0
    /\ now = 0
    /\ xcall = NoCall
    /\ initial_dir = <<>>
    /\ output_dir = <<>>
    /\ zcall = NoZipCall
    /\ zip_runs = {}
    /\ dialog = NoDialog

vars ==
    <<resolver, last_error, op, nops, pc, qid, extent, zones_to_query, all_features,
      fetched, listing, qresult, qn, s_result, summary, file, file_before,
      saved, cancel, exporterVars>>

agentVars ==
    <<last_error, op, nops, pc, qid, extent, zones_to_query, all_features,
      fetched, listing, qresult, qn, s_result, summary, file, file_before,
      saved, cancel>>

NotCancelled == [requested |-> FALSE, query |-> 0, fetched |-> 0]

ResolverIdle ==
    [done |-> FALSE, extent |-> CHOOSE e \in Extents : TRUE,
     zones_data |-> <<>>, matching_zones |-> <<>>]

\* GnosisDGGSAgent.__init__ and COPSTACDialog.__init__: nothing queried yet.
InitAgent ==
    /\ last_error = NoError
    /\ op = "none"
    /\ nops = 0
    /\ pc = "idle"
    /\ qid = 0
    /\ extent = CHOOSE e \in Extents : TRUE
    /\ zones_to_query = <<>>
    /\ all_features = <<>>
    /\ fetched = <<>>
    /\ listing = NoListing
    /\ qresult = NoneResult
    /\ qn = 0
    /\ s_result = NoneResult
    /\ summary = NoSummary
    /\ file = NoFile
    /\ file_before = NoFile
    /\ saved = FALSE
    /\ cancel = NotCancelled

\* ------------------------------------------------ the resolver on its own
\* The zones the listings of the agent specifications are made of: zone A
\* without bounds, zone B with the box [1,1]x[1,1], and a zone without an id.
ListedZones ==
    {ZoneFeature({"A"}, "short", Absent, Absent, Absent, Absent),
     ZoneFeature({"B"}, "short", {1}, {1}, {1}, {1}),
     ZoneFeature(Absent, "short", Absent, Absent, Absent, Absent)}

\* The listings the resolver is run on: one zone with any id and any bounds,
\* and up to MaxZones of the zones above.
ResolverListings ==
    {<<z>> : z \in ZoneFeatures} \cup SeqsUpTo(ListedZones, MaxZones)

InitZones ==
    /\ InitAgent
    /\ InitCalls
    /\ sanitize_call = NoSanitizeCall
    /\ item_call = NoItemCall
    /\ InitSession
    /\ \E e \in Extents, zs \in ResolverListings :
          resolver = [done |-> FALSE, extent |-> e, zones_data |-> zs,
                      matching_zones |-> <<>>]

\* get_zones_for_extent on a listing that was fetched and decoded.
ResolveListing ==
    /\ ~ resolver.done
    /\ resolver' = [resolver EXCEPT
          !.done = TRUE,
          !.matching_zones =
              get_zones_for_extent(ListingOk(resolver.zones_data), resolver.extent)]
    /\ UNCHANGED <<agentVars, exporterVars>>

NextZones == ResolveListing

SpecZones == InitZones /\ [][NextZones]_vars

\* ------------------------------------------------------- query_dggs_data
\* The answers of the zones-list endpoint and the extents the agent
\* specifications draw from: two extents, one that meets the box of ListedZones
\* and one that does not.
ListingResponses ==
    {ListingOk(zs) : zs \in SeqsUpTo(ListedZones, MaxZones)}
    \cup {ListingFailed(k) : k \in ListingFailures}

QueryExtents ==
    {e \in Extents : /\ e.xMinimum = e.xMaximum /\ e.yMinimum = e.yMaximum
                     /\ e.xMinimum = e.yMinimum /\ e.xMinimum >= 1}

\* Lines 49-54 and 69: a query begins.  With a zone id there is no resolution.
BeginQuery(e, zid) ==
    /\ qid' = qid + 1
    /\ extent' = e
    /\ zones_to_query' = IF TruthyStr(zid) THEN <<Val(zid)>> ELSE <<>>
    /\ pc' = IF TruthyStr(zid) THEN "fetch" ELSE "resolve"
    /\ all_features' = <<>>
    /\ fetched' = <<>>
    /\ listing' = NoListing
    /\ qresult' = NoneResult

\* Lines 54-59: the zones-list request and what follows it.
Resolve(response) ==
    /\ pc = "resolve"
    /\ listing' = response
    /\ LET zones == get_zones_for_extent(response, extent)
       IN  /\ zones_to_query' = zones
           /\ IF zones = <<>>
              THEN /\ last_error' = NoZonesError(last_error, qid)
                   /\ pc' = "returned"
              ELSE /\ pc' = "fetch"
                   /\ UNCHANGED last_error
    /\ UNCHANGED <<exporterVars, resolver, op, nops, qid, extent, all_features, fetched, qresult,
                   qn, s_result, summary, file, file_before, saved, cancel>>

\* A logged answer: the zone that was requested and what came back.
Answer(zone, response) ==
    [zone |-> zone, kind |-> response.kind, features |-> response.features]

\* Line 71: the loop takes the zones in the order of zones_to_query.
NextZone(zones, done) == zones[Len(done) + 1]

\* Lines 71-90 and 125-129: one turn of the loop, the request for the next zone,
\* and, after the last zone, the return of the collection.
FetchZone(response) ==
    /\ pc = "fetch"
    /\ fetched' = Append(fetched, Answer(NextZone(zones_to_query, fetched), response))
    /\ IF FetchRaises(response)
       THEN /\ last_error' = Error("unexpected", qid)
            /\ pc' = "returned"
            /\ UNCHANGED <<all_features, qresult>>
       ELSE /\ all_features' = Extend(all_features, query_zone_data(response))
            /\ IF Len(fetched') = Len(zones_to_query)
               THEN /\ qresult' = FeatureCollection(all_features')
                    /\ last_error' = NoError
                    /\ pc' = "returned"
               ELSE UNCHANGED <<qresult, last_error, pc>>
    /\ UNCHANGED <<exporterVars, resolver, op, nops, qid, extent, zones_to_query, listing,
                   qn, s_result, summary, file, file_before, saved, cancel>>

\* An operation begins: the values the previous one returned are gone.
BeginOp(name) ==
    /\ pc = "idle"
    /\ nops < MaxOps
    /\ nops' = nops + 1
    /\ op' = name
    /\ s_result' = NoneResult
    /\ summary' = NoSummary
    /\ saved' = FALSE
    /\ cancel' = NotCancelled

\* query_dggs_data called on its own.
StartQuery(e, zid) ==
    /\ BeginOp("query")
    /\ BeginQuery(e, zid)
    /\ qn' = 0
    /\ UNCHANGED <<exporterVars, resolver, last_error, file, file_before>>

\* The operation returns to its caller: the locals of its query are gone.
EndOp ==
    /\ pc' = "idle"
    /\ zones_to_query' = <<>>
    /\ all_features' = <<>>
    /\ fetched' = <<>>
    /\ listing' = NoListing

QueryDone ==
    /\ op = "query"
    /\ pc = "returned"
    /\ EndOp
    /\ UNCHANGED <<exporterVars, resolver, last_error, op, nops, qid, extent, qresult, qn,
                   s_result, summary, file, file_before, saved, cancel>>

\* --------------------------------------------------- get_coverage_summary
\* COPSTACDialog.query_gnosis_earth, lines 274-281: the progress dialog with its
\* Cancel button is shown and get_coverage_summary begins its own query.
StartSummary(e) ==
    /\ BeginOp("summary")
    /\ BeginQuery(e, Absent)
    /\ qn' = 1
    /\ UNCHANGED <<exporterVars, resolver, last_error, file, file_before>>

\* Lines 294-305: the first query has returned; on a result, the query of
\* get_dggs_zones_for_extent (line 244) begins.
SummaryAfterQuery ==
    /\ op = "summary" /\ qn = 1 /\ pc = "returned"
    /\ s_result' = qresult
    /\ IF qresult.type = "None"
       THEN /\ summary' = FailureSummary(last_error)
            /\ EndOp
            /\ UNCHANGED <<qid, extent, qresult, qn>>
       ELSE /\ BeginQuery(extent, Absent)
            /\ qn' = 2
            /\ UNCHANGED summary
    /\ UNCHANGED <<exporterVars, resolver, last_error, op, nops, file, file_before, saved, cancel>>

\* Lines 246-259 and 304-338: the second query has returned.
SummaryAfterZones ==
    /\ op = "summary" /\ qn = 2 /\ pc = "returned"
    /\ summary' = SuccessSummary(s_result.features, get_dggs_zones_for_extent(qresult))
    /\ EndOp
    /\ qresult' = NoneResult
    /\ UNCHANGED <<exporterVars, resolver, last_error, op, nops, qid, extent, qn, s_result,
                   file, file_before, saved, cancel>>

\* The user presses Cancel on the progress dialog of lines 274-277 while the
\* query runs.  Nothing in the agent or the dialog reads the button.
PressCancel ==
    /\ op = "summary"
    /\ pc \in {"resolve", "fetch"}
    /\ ~ cancel.requested
    /\ cancel' = [requested |-> TRUE, query |-> qid, fetched |-> Len(fetched)]
    /\ UNCHANGED <<exporterVars, resolver, last_error, op, nops, pc, qid, extent, zones_to_query,
                   all_features, fetched, listing, qresult, qn, s_result,
                   summary, file, file_before, saved>>

\* -------------------------------------------------- fetch_and_save_geojson
\* Line 353.
StartSave(e, zid) ==
    /\ BeginOp("save")
    /\ BeginQuery(e, zid)
    /\ qn' = 0
    /\ file_before' = file
    /\ UNCHANGED <<exporterVars, resolver, last_error, file>>

\* Lines 355-356.
SaveAfterQuery ==
    /\ op = "save" /\ pc = "returned"
    /\ IF qresult.type = "None"
       THEN EndOp
       ELSE /\ pc' = "write"
            /\ UNCHANGED <<zones_to_query, all_features, fetched, listing>>
    /\ UNCHANGED <<exporterVars, resolver, last_error, op, nops, qid, extent, qresult, qn,
                   s_result, summary, file, file_before, saved, cancel>>

\* Lines 358-369: open, json.dump, close.
WriteFile(outcome, k) ==
    /\ op = "save" /\ pc = "write"
    /\ k < Len(Dump(qresult))
    /\ file' = FileAfterWrite(file, Dump(qresult), outcome, k)
    /\ saved' = (outcome = "ok")
    /\ last_error' = IF outcome = "ok" THEN last_error ELSE Error("save", qid)
    /\ EndOp
    /\ UNCHANGED <<exporterVars, resolver, op, nops, qid, extent, qresult, qn, s_result, summary,
                   file_before, cancel>>

WriteOutcomes == {"ok", "open_error", "dump_error"}

\* ---------------------------------------------------------- specifications
Init ==
    /\ InitAgent
    /\ InitCalls
    /\ resolver = ResolverIdle
    /\ sanitize_call = NoSanitizeCall
    /\ item_call = NoItemCall
    /\ InitSession

\* query_dggs_data called on its own, any number of times (up to MaxOps).
NextQuery ==
    \/ \E e \in QueryExtents, zid \in OptId : StartQuery(e, zid)
    \/ \E r \in ListingResponses : Resolve(r)
    \/ \E r \in ZoneResponses : FetchZone(r)
    \/ QueryDone

SpecQuery == Init /\ [][NextQuery]_vars

\* The dialog's GNOSIS query: get_coverage_summary behind the progress dialog.
NextSummary ==
    \/ \E e \in QueryExtents : StartSummary(e)
    \/ \E r \in ListingResponses : Resolve(r)
    \/ \E r \in ZoneResponses : FetchZone(r)
    \/ SummaryAfterQuery
    \/ SummaryAfterZones
    \/ PressCancel

SpecSummary == Init /\ [][NextSummary]_vars

\* fetch_and_save_geojson to one output path.
NextSave ==
    \/ \E e \in QueryExtents, zid \in OptId : StartSave(e, zid)
    \/ \E r \in ListingResponses : Resolve(r)
    \/ \E r \in ZoneResponses : FetchZone(r)
    \/ SaveAfterQuery
    \/ \E o \in WriteOutcomes, k \in 0..(1 + MaxZones * MaxFeatures) : WriteFile(o, k)

SpecSave == Init /\ [][NextSave]_vars

\* ============================================================ the exporter
\* ------------------------------------------------------------- sanitize_id
\* A layer name is a sequence of characters.  The characters of the model: a
\* lower-case letter, an upper-case letter, a digit, the two kept signs, a
\* space and a dot.
Chars == {"a", "B", "7", "-", "_", " ", "."}

MaxNameLen == 3     \* characters in a layer name (SpecSanitize)

LayerNames == SeqsUpTo(Chars, MaxNameLen)

\* str.isalnum() of a character (of a name, or of the prefix 'item_').
IsAlnum(c) == c \in {"a", "b", "B", "7", "i", "t", "e", "m"}

\* str.lower() of a character.
Lower(c) == IF c = "B" THEN "b" ELSE c

\* Line 344: `c if c.isalnum() or c in '-_' else '_'`.
Substitute(c) == IF IsAlnum(c) \/ c \in {"-", "_"} THEN c ELSE "_"

ItemPrefix == <<"i", "t", "e", "m", "_">>

Returned(value) == [raised |-> FALSE, value |-> value]

Raised == [raised |-> TRUE, value |-> <<>>]

\* Lines 344-348.  On the empty name `sanitized[0]` raises IndexError.
sanitize_id(name) ==
    LET sanitized == [i \in 1..Len(name) |-> Substitute(name[i])]
    IN  IF sanitized = <<>> THEN Raised
        ELSE LET prefixed == IF ~ IsAlnum(sanitized[1]) THEN ItemPrefix \o sanitized
                             ELSE sanitized
             IN  Returned([i \in 1..Len(prefixed) |-> Lower(prefixed[i])])

InitSanitize ==
    /\ InitAgent
    /\ InitCalls
    /\ resolver = ResolverIdle
    /\ item_call = NoItemCall
    /\ InitSession
    /\ \E name \in LayerNames :
          sanitize_call = [done |-> FALSE, name |-> name, raised |-> FALSE,
                           value |-> <<>>]

\* sanitize_id on a name.
Sanitize ==
    /\ ~ sanitize_call.done
    /\ sanitize_call' = [sanitize_call EXCEPT
          !.done = TRUE,
          !.raised = sanitize_id(sanitize_call.name).raised,
          !.value = sanitize_id(sanitize_call.name).value]
    /\ UNCHANGED <<callVars, resolver, agentVars, item_call, sessionVars, archiveVars, dialog>>

NextSanitize == Sanitize

SpecSanitize == InitSanitize /\ [][NextSanitize]_vars

\* -------------------------------------------------------------- the layers
\* A QGIS layer as far as the exporter reads it: its name, its kind (a vector
\* layer, a raster layer, or another map layer) and its extent in EPSG:4326,
\* which is layer.extent() or what transformBoundingBox makes of it.  A box is
\* the list [xMinimum, yMinimum, xMaximum, yMaximum].
Layer(name, kind, bbox) == [name |-> name, kind |-> kind, bbox |-> bbox]

Box(e) == <<e.xMinimum, e.yMinimum, e.xMaximum, e.yMaximum>>

\* A path under stac_cop_export: the directory ("." or "assets"), the file's
\* stem and its extension.  A relative href of a document in stac_cop_export
\* is the path it names.
Path(dir, stem, ext) == [dir |-> dir, stem |-> stem, ext |-> ext]

\* The href f"./{id}.json" of lines 189 and 287.
ItemHref(id) == Path(".", id, "json")

\* ------------------------------------------------------------ COP metadata
\* cop_metadata is a dict: a function from the keys it has to their values.
\* A value is None ({}) or a string ({s}).
CopFields ==
    {"mission", "classification", "releasability", "dggs_crs", "dggs_zone_id",
     "service_provider"}

CopKey ==
    [mission |-> "cop:mission", classification |-> "cop:classification",
     releasability |-> "cop:releasability", dggs_crs |-> "cop:dggs_crs",
     dggs_zone_id |-> "cop:dggs_zone_id",
     service_provider |-> "cop:service_provider"]

\* None, the empty string, a blank and a word.
MetaValues == {Absent, {""}, {" "}, {"OP-TEST"}}

\* dict.get(key): None when the key is missing.
Get(dict, key) == IF key \in DOMAIN dict THEN dict[key] ELSE Absent

\* bool(x) of an optional string: None and '' are falsy.
Truthy(o) == o # Absent /\ o # {""}

\* A mutant: the field is copied whenever the metadata has the key.
HasKey(cop_metadata, field) == field \in DOMAIN cop_metadata

\* Lines 195-211: `if cop_metadata.get(field):`.
HasValue(cop_metadata, field) == Truthy(Get(cop_metadata, field))

\* Lines 194-211: the cop:* properties added to the item.
CopProperties(cop_metadata) ==
    LET fields == {f \in CopFields : HasValue(cop_metadata, f)}
    IN  [k \in {CopKey[f] : f \in fields} |->
            cop_metadata[CHOOSE f \in fields : CopKey[f] = k]]

\* Lines 142-151: the ring of the box.
Ring(bbox) ==
    <<<<bbox[1], bbox[2]>>, <<bbox[3], bbox[2]>>, <<bbox[3], bbox[4]>>,
      <<bbox[1], bbox[4]>>, <<bbox[1], bbox[2]>>>>

\* Lines 154-161.
AssetType(layer) == IF layer.kind = "vector" THEN "feature" ELSE "imagery"

MediaType(layer) ==
    IF layer.kind = "vector" THEN "application/geo+json" ELSE "image/tiff"

\* Lines 121-213: the item of a layer, built at the instant t.
create_stac_item(layer, layer_id, asset_path, cop_metadata, t) ==
    [id |-> layer_id,
     bbox |-> layer.bbox,
     geometry |-> Ring(layer.bbox),
     properties |-> [k \in {"datetime", "title"} |->
                        IF k = "datetime" THEN {t} ELSE {layer.name}]
                    @@ CopProperties(cop_metadata),
     assets |-> [href |-> asset_path, title |-> layer.name,
                 type |-> MediaType(layer), cop_asset_type |-> AssetType(layer)],
     links |-> <<[rel |-> "self", href |-> ItemHref(layer_id)]>>]

\* ----------------------------------------------- create_stac_item on its own
CopMetadata == UNION {[keys -> MetaValues] : keys \in SUBSET CopFields}

ProbeLayers ==
    {Layer(<<"a">>, kind, <<0, 0, 1, 1>>) : kind \in {"vector", "raster"}}

InitItem ==
    /\ InitAgent
    /\ InitCalls
    /\ resolver = ResolverIdle
    /\ sanitize_call = NoSanitizeCall
    /\ InitSession
    /\ \E layer \in ProbeLayers, m \in CopMetadata :
          item_call = [done |-> FALSE, layer |-> layer, cop_metadata |-> m,
                       item |-> <<>>]

\* create_stac_item on a layer and a metadata dict.
CreateItem ==
    /\ ~ item_call.done
    /\ item_call' = [item_call EXCEPT
          !.done = TRUE,
          !.item = create_stac_item(item_call.layer, <<"7", "-", "7">>,
                                    Path("assets", <<"a">>, "geojson"),
                                    item_call.cop_metadata, 0)]
    /\ UNCHANGED <<callVars, resolver, agentVars, sanitize_call, sessionVars, archiveVars, dialog>>

NextItem == CreateItem

SpecItem == InitItem /\ [][NextItem]_vars

\* ------------------------------------------------------ the export directory
\* Line 62: os.path.join(self.stac_dir, f'{file_name}.json').
ItemPath(file_name) == Path(".", file_name, "json")

\* Line 82: os.path.join(self.assets_dir, f'{layer_id}.geojson').
AssetPath(file_name) == Path("assets", file_name, "geojson")

\* Line 291.
CollectionPath ==
    Path(".", <<"c", "o", "l", "l", "e", "c", "t", "i", "o", "n">>, "json")

\* A file written whole at the instant t, and a file that open(path, 'w') has
\* truncated and whose writer raised before the document was complete.
WholeFile(content, t) == [whole |-> TRUE, content |-> <<content>>, mtime |-> t]

BrokenFile(t) == [whole |-> FALSE, content |-> <<>>, mtime |-> t]

\* `with open(path, 'w') as f: json.dump(document, f)`: the directory after it.
\* The outcome is "ok", "open_error" (open raises, nothing is touched) or
\* "dump_error" (the file is truncated and json.dump or the flush raises).
WriteJson(dir, path, document, outcome, t) ==
    CASE outcome = "open_error" -> dir
      [] outcome = "dump_error" -> (path :> BrokenFile(t)) @@ dir
      [] OTHER -> (path :> WholeFile(document, t)) @@ dir

\* -------------------------------------------------------------- export_layer
\* A mutant: the item's id is the sanitized layer name, as the docstring of
\* create_stac_item has it.
LayerIdFromName(uuid4, file_name) == file_name

\* str(uuid.uuid4()) is a text of hexadecimal digits and '-' that no earlier
\* call returned: the n-th text drawn is written here as '7-' and n sevens.
\* No name of the model sanitizes to such a text.
UuidText(n) == [i \in 1..(n + 2) |-> IF i = 2 THEN "-" ELSE "7"]

\* Line 51: the id of the item is the UUID just drawn.
LayerId(uuid4, file_name) == UuidText(uuid4)

\* How an export_layer call can go: to the end, or the vector writer reports
\* an error (line 96), or the transform to EPSG:4326 raises (line 132), or the
\* write of the item's file raises (lines 63-64).
ExportOutcomes == {"ok", "asset_error", "transform_error", "open_error", "dump_error"}

\* Where export_layer raises, or "none".
ExportRaises(layer, outcome) ==
    IF sanitize_id(layer.name).raised THEN "sanitize_id"
    ELSE IF layer.kind = "other" THEN "export_layer_data"
    ELSE IF layer.kind = "vector" /\ outcome = "asset_error" THEN "export_layer_data"
    ELSE IF outcome = "transform_error" THEN "create_stac_item"
    ELSE IF outcome \in {"open_error", "dump_error"} THEN "open"
    ELSE "none"

\* Lines 80-103: the asset of a layer.  A vector layer is written as GeoJSON
\* under assets; a raster layer is referenced at its source.
AssetOf(layer, file_name) ==
    IF layer.kind = "vector" THEN AssetPath(file_name)
    ELSE Path("source", layer.name, "tif")

\* Lines 49-59: the item export_layer builds.
ItemOf(layer, cop_metadata, uuid4, t) ==
    LET file_name == sanitize_id(layer.name).value
    IN  create_stac_item(layer, LayerId(uuid4, file_name),
                         AssetOf(layer, file_name), cop_metadata, t)

\* Lines 56 and 62-64: the directory after the call.
DirAfterExport(dir, layer, cop_metadata, outcome, uuid4, t) ==
    LET raises == ExportRaises(layer, outcome)
        file_name == sanitize_id(layer.name).value
        with_asset ==
            IF layer.kind = "vector"
            THEN (AssetPath(file_name) :> WholeFile(layer.name, t)) @@ dir
            ELSE dir
    IN  CASE raises \in {"sanitize_id", "export_layer_data"} -> dir
          [] raises = "create_stac_item" -> with_asset
          [] OTHER -> WriteJson(with_asset, ItemPath(file_name),
                                ItemOf(layer, cop_metadata, uuid4, t), outcome, t)

\* A mutant: the item is recorded before its file is written.
ItemsAfterExportEarly(items, item, raises) ==
    IF raises \in {"none", "open"} THEN Append(items, item) ELSE items

\* Line 66: the item is appended once everything else is done.
ItemsAfterExport(items, item, raises) ==
    IF raises = "none" THEN Append(items, item) ELSE items

\* export_layer(layer, cop_metadata), lines 49-67.
ExportLayer(layer, cop_metadata, outcome) ==
    LET raises == ExportRaises(layer, outcome)
        uuid4 == uuids + 1
    IN  /\ uuids' = uuid4
        /\ stac_dir' = DirAfterExport(stac_dir, layer, cop_metadata, outcome, uuid4, now)
        /\ exported_items' =
              ItemsAfterExport(exported_items,
                  IF raises \in {"none", "open"}
                  THEN ItemOf(layer, cop_metadata, uuid4, now) ELSE <<>>,
                  raises)
        /\ xcall' = [method |-> "export_layer", raised |-> raises # "none"]
        /\ UNCHANGED <<now, initial_dir>>

\* --------------------------------------------------------- create_collection
MinOf(S) == CHOOSE x \in S : \A y \in S : x <= y

MaxOf(S) == CHOOSE x \in S : \A y \in S : x >= y

\* Lines 231-232: all_bbox, as the set of the values at position k.
BboxValues(items, k) == {items[i].bbox[k] : i \in 1..Len(items)}

\* A mutant: max_y is taken with min.
SpatialBboxMinForMax(items) ==
    IF items # <<>>
    THEN <<MinOf(BboxValues(items, 1)), MinOf(BboxValues(items, 2)),
           MaxOf(BboxValues(items, 3)), MinOf(BboxValues(items, 4))>>
    ELSE <<-180, -90, 180, 90>>

\* Lines 237-244.
SpatialBbox(items) ==
    IF items # <<>>
    THEN <<MinOf(BboxValues(items, 1)), MinOf(BboxValues(items, 2)),
           MaxOf(BboxValues(items, 3)), MaxOf(BboxValues(items, 4))>>
    ELSE <<-180, -90, 180, 90>>

\* Lines 233-234 and 247-251.
TemporalInterval(items, t) ==
    LET all_times == {Val(items[i].properties["datetime"]) : i \in 1..Len(items)}
    IN  IF all_times # {} THEN <<MinOf(all_times), MaxOf(all_times)>> ELSE <<t, t>>

Link(rel, href) == [rel |-> rel, href |-> href]

\* The href './collection.json' of lines 274 and 278.
CollectionHref ==
    Path(".", <<"c", "o", "l", "l", "e", "c", "t", "i", "o", "n">>, "json")

\* A mutant: each item link is put right after the root link, so that the
\* last exported item comes first.
CollectionLinksNewestFirst(items) ==
    <<Link("self", CollectionHref), Link("root", CollectionHref)>>
    \o [i \in 1..Len(items) |-> Link("item", ItemHref(items[Len(items) + 1 - i].id))]

\* Lines 271-288.
CollectionLinks(items) ==
    <<Link("self", CollectionHref), Link("root", CollectionHref)>>
    \o [i \in 1..Len(items) |-> Link("item", ItemHref(items[i].id))]

\* Lines 253-281 and 284-288: the collection document.
Collection(collection_id, items, t) ==
    [type |-> "Collection",
     id |-> collection_id,
     license |-> "proprietary",
     extent |-> [spatial |-> [bbox |-> <<SpatialBbox(items)>>],
                 temporal |-> [interval |-> <<TemporalInterval(items, t)>>]],
     links |-> CollectionLinks(items)]

\* create_collection(collection_id, title, description), lines 227-295.
CreateCollection(collection_id, outcome) ==
    /\ stac_dir' = WriteJson(stac_dir, CollectionPath,
                             Collection(collection_id, exported_items, now),
                             outcome, now)
    /\ xcall' = [method |-> "create_collection", raised |-> outcome # "ok"]
    /\ UNCHANGED <<exported_items, uuids, now, initial_dir>>

\* Time passes between two calls.
Tick ==
    /\ now' = now + 1
    /\ UNCHANGED <<exported_items, stac_dir, uuids, xcall, initial_dir>>

\* ------------------------------------------------------ an exporter session
MaxExports == 2     \* export_layer calls in one session

MaxTime == 1        \* the clock runs over 0..MaxTime

\* The layers of a session: names that are equal or become equal when
\* sanitized, the empty name, every kind of layer, three extents.
SessionNames == {<<"a">>, <<"a", " ">>, <<"a", "_">>, <<>>}

LayerKinds == {"vector", "raster", "other"}

SessionBoxes == {<<0, 0, 1, 1>>, <<-1, -1, 0, 0>>, <<-1, 0, 0, 1>>}

SessionLayers ==
    {Layer(name, kind, bbox) :
        name \in SessionNames, kind \in LayerKinds, bbox \in SessionBoxes}

\* The metadata of the session, as the dialog collects it (lines 443-450).
SessionMetadata ==
    [mission |-> {"OP-TEST"}, classification |-> {"public release"},
     releasability |-> {""}, dggs_crs |-> {"rHEALPix"},
     dggs_zone_id |-> {"R05_08"}, service_provider |-> {""}]

idleVars == <<callVars, resolver, agentVars, sanitize_call, item_call, dialog>>

InitExporter ==
    /\ InitAgent
    /\ InitCalls
    /\ resolver = ResolverIdle
    /\ sanitize_call = NoSanitizeCall
    /\ item_call = NoItemCall
    /\ InitSession

\* The outcomes that make a difference for a layer.
OutcomesOf(layer) ==
    IF sanitize_id(layer.name).raised \/ layer.kind = "other" THEN {"ok"}
    ELSE IF layer.kind = "raster" THEN ExportOutcomes \ {"asset_error"}
    ELSE ExportOutcomes

ExportLayerCall(layer, outcome) ==
    /\ zcall.pc = "idle"
    /\ uuids < MaxExports
    /\ outcome \in OutcomesOf(layer)
    /\ ExportLayer(layer, SessionMetadata, outcome)
    /\ UNCHANGED <<idleVars, archiveVars>>

CreateCollectionCall(outcome) ==
    /\ zcall.pc = "idle"
    /\ CreateCollection("op-test", outcome)
    /\ UNCHANGED <<idleVars, archiveVars>>

TickCall ==
    /\ zcall.pc = "idle"
    /\ now < MaxTime
    /\ Tick
    /\ UNCHANGED <<idleVars, archiveVars>>

\* One exporter, its export_layer and create_collection called in any order
\* within one reading of the clock.
NextExporter ==
    \/ \E layer \in SessionLayers, outcome \in ExportOutcomes :
          ExportLayerCall(layer, outcome)
    \/ \E outcome \in WriteOutcomes : CreateCollectionCall(outcome)

SpecExporter == InitExporter /\ [][NextExporter]_vars

\* -------------------------------------------------------- create_zip_archive
MaxZips == 2        \* create_zip_archive calls in one session

\* Lines 305 and 325: the two file names of a timestamp.
ZipName(timestamp) == [kind |-> "zip", timestamp |-> timestamp]

HashName(timestamp) == [kind |-> "zip.sha256", timestamp |-> timestamp]

\* The bytes of an archive: the entries written so far and, once the ZipFile
\* is closed, the central directory that lists them.
Archive(entries, closed) == [entries |-> entries, closed |-> closed]

\* Line 314, zipf.write(file_path, arcname): the entry carries the name of the
\* file relative to output_dir, its bytes and its modification time.
Entry(path, f) == [arcname |-> path, whole |-> f.whole, content |-> f.content,
                   date_time |-> f.mtime]

\* hashlib.sha256 of some bytes: different bytes, different digests.
SHA256(bytes) == [sha256 |-> bytes]

\* A mutant: the digest is fed while the archive is written, so that it
\* covers the entries but not what the close appends.
ReadBackUnclosed(archive) == Archive(archive.entries, FALSE)

\* Lines 318-320: the bytes read back from zip_path.
ReadBack(archive) == archive

\* The files of the tree that the walk has not reached yet.
NotWalked == {path \in DOMAIN stac_dir :
                \A i \in 1..Len(zcall.walked) : zcall.walked[i] # path}

\* Lines 304-308: the timestamp is read and the archive is opened for writing.
ZipOpen ==
    /\ zcall.pc = "idle"
    /\ zcall.runs < MaxZips
    /\ zcall' = [pc |-> "walk", runs |-> zcall.runs + 1, timestamp |-> now,
                 walked |-> <<>>, hash_value |-> <<>>]
    /\ output_dir' = (ZipName(now) :> Archive(<<>>, FALSE)) @@ output_dir
    /\ UNCHANGED <<idleVars, sessionVars, zip_runs>>

\* Lines 310-314: os.walk lists the files of stac_cop_export and then those of
\* assets, each directory in the order the file system yields them, which the
\* code does not sort; each file is written to the archive.
ZipWrite(path) ==
    /\ zcall.pc = "walk"
    /\ path \in NotWalked
    /\ path.dir = "assets" => \A other \in NotWalked : other.dir = "assets"
    /\ zcall' = [zcall EXCEPT !.walked = Append(@, path)]
    /\ output_dir' = [output_dir EXCEPT ![ZipName(zcall.timestamp)] =
          Archive(Append(@.entries, Entry(path, stac_dir[path])), FALSE)]
    /\ UNCHANGED <<idleVars, sessionVars, zip_runs>>

\* Line 308: the with block ends and the ZipFile is closed.
ZipClose ==
    /\ zcall.pc = "walk"
    /\ NotWalked = {}
    /\ zcall' = [zcall EXCEPT !.pc = "closed"]
    /\ output_dir' = [output_dir EXCEPT ![ZipName(zcall.timestamp)] =
          Archive(@.entries, TRUE)]
    /\ UNCHANGED <<idleVars, sessionVars, zip_runs>>

\* Lines 316-330: the hash of the file, the digest file, the return.
ZipHash ==
    /\ zcall.pc = "closed"
    /\ LET hash_value == SHA256(ReadBack(output_dir[ZipName(zcall.timestamp)]))
       IN  /\ zcall' = [zcall EXCEPT !.pc = "idle", !.walked = <<>>,
                                     !.hash_value = hash_value]
           /\ output_dir' = (HashName(zcall.timestamp) :>
                                 [hash |-> hash_value,
                                  filename |-> ZipName(zcall.timestamp)])
                            @@ output_dir
    /\ zip_runs' = zip_runs \cup
          {[tree |-> stac_dir, archive |-> output_dir[ZipName(zcall.timestamp)]]}
    /\ xcall' = [method |-> "create_zip_archive", raised |-> FALSE]
    /\ UNCHANGED <<idleVars, exported_items, stac_dir, uuids, now, initial_dir>>

\* The layers of the sessions that build archives.
ArchiveLayers ==
    {Layer(<<"a">>, "vector", <<0, 0, 1, 1>>),
     Layer(<<"a", " ">>, "raster", <<-1, -1, 0, 0>>)}

\* One exporter, its methods called in any order, one after the other, while
\* time passes.
NextArchive ==
    \/ \E layer \in ArchiveLayers, outcome \in ExportOutcomes :
          ExportLayerCall(layer, outcome)
    \/ \E outcome \in WriteOutcomes : CreateCollectionCall(outcome)
    \/ TickCall
    \/ ZipOpen
    \/ \E path \in DOMAIN stac_dir : ZipWrite(path)
    \/ ZipClose
    \/ ZipHash

SpecArchive == InitExporter /\ [][NextArchive]_vars

\* ============================================ COPSTACDialog.export_layers
MaxLayers == 2      \* visible layers of the project

\* The parameters of STACCOPExporter.__init__ besides self (line 23) and the
\* methods the class defines.
InitParameters == {"output_dir"}

ExporterMethods ==
    {"export_layer", "export_layer_data", "create_stac_item", "create_collection",
     "create_zip_archive", "sanitize_id"}

\* Lines 455-462 of the dialog: STACCOPExporter(self.output_dir,
\* map_canvas=map_canvas) raises TypeError when __init__ has no such
\* parameter, and with a map canvas exporter.set_clip_extent(...) raises
\* AttributeError when the class has no such method.
SetupRaises(iface) ==
    IF ~ ({"map_canvas"} \subseteq InitParameters) THEN "TypeError"
    ELSE IF iface /\ "set_clip_extent" \notin ExporterMethods THEN "AttributeError"
    ELSE "none"

\* Lines 206-220: the checked layers, in the order of the list.
RECURSIVE SelectedFrom(_, _, _)
SelectedFrom(layers, checked, i) ==
    IF i > Len(layers) THEN <<>>
    ELSE (IF i \in checked THEN <<layers[i]>> ELSE <<>>)
         \o SelectedFrom(layers, checked, i + 1)

get_selected_layers == SelectedFrom(dialog.layers, dialog.checked, 1)

\* Line 482: the layer loaded from the saved GNOSIS data, named
\* GNOSIS_SRTM_DGGS (written here with the characters of the model).
GnosisLayer == Layer(<<"B", "_", "B">>, "vector", <<0, 0, 1, 1>>)

Message(kind, title) == [kind |-> kind, title |-> title]

\* Lines 467-476 and 489-499: export_layer for one layer after the other, each
\* in its own try; a layer that raises is reported and the loop goes on.
RECURSIVE ExportBatch(_, _, _)
ExportBatch(layers, outcomes, batch) ==
    IF layers = <<>> THEN batch
    ELSE LET layer == Head(layers)
             raises == ExportRaises(layer, Head(outcomes))
             uuid4 == batch.uuids + 1
             item == IF raises \in {"none", "open"}
                     THEN ItemOf(layer, SessionMetadata, uuid4, now) ELSE <<>>
         IN  ExportBatch(Tail(layers), Tail(outcomes),
                 [items |-> ItemsAfterExport(batch.items, item, raises),
                  dir |-> DirAfterExport(batch.dir, layer, SessionMetadata,
                                         Head(outcomes), uuid4, now),
                  uuids |-> uuid4,
                  attempted |-> Append(batch.attempted, layer),
                  failed |-> IF raises # "none" THEN Append(batch.failed, layer)
                             ELSE batch.failed])

\* The orders in which os.walk can yield the files of a tree.
Walks(dir) ==
    {walk \in [1..Cardinality(DOMAIN dir) -> DOMAIN dir] :
        /\ \A i, j \in DOMAIN walk : i # j => walk[i] # walk[j]
        /\ \A i, j \in DOMAIN walk :
              (walk[i].dir = "assets" /\ walk[j].dir # "assets") => j < i}

\* create_zip_archive as one step: the archive of a tree walked in some order.
ArchiveOf(dir, walk) ==
    Archive([i \in 1..Len(walk) |-> Entry(walk[i], dir[walk[i]])], TRUE)

\* The warning of line 472 for a selected layer, of line 495 for the GNOSIS
\* layer.
Warning(layer) ==
    IF layer = GnosisLayer THEN Message("warning", <<"GNOSIS Export Warning">>)
    ELSE Message("warning", <<"Export Error", layer.name>>)

Warnings(failed) == [i \in 1..Len(failed) |-> Warning(failed[i])]

\* What export_layers did: the layers it had selected, the ones it passed to
\* export_layer, the ones that failed, the message boxes it showed, and the
\* exception that reached the handler of line 530, if any.
Run(selected, attempted, failed, messages, raised) ==
    [done |-> TRUE, selected |-> selected, attempted |-> attempted,
     failed |-> failed, messages |-> messages, raised |-> raised]

\* Lines 464-528, once the exporter is set up: the batch, the collection, the
\* archive, the message and accept().  The new exporter starts without items
\* on the directory as it is.
ExportWithExporter(selected) ==
    LET layers == selected \o (IF dialog.gnosis_data_path THEN <<GnosisLayer>> ELSE <<>>)
    IN  \E outcomes \in [1..Len(layers) -> ExportOutcomes], c_outcome \in {"ok", "open_error", "dump_error"} :
          LET batch == ExportBatch(layers, outcomes,
                           [items |-> <<>>, dir |-> stac_dir, uuids |-> uuids,
                            attempted |-> <<>>, failed |-> <<>>])
              success_count == Len(batch.items)
              raised == IF success_count > 0 /\ c_outcome # "ok" THEN "create_collection"
                        ELSE "none"
              dir == IF success_count > 0
                     THEN WriteJson(batch.dir, CollectionPath,
                                    Collection("op-test", batch.items, now), c_outcome, now)
                     ELSE batch.dir
              zipped == dialog.create_zip /\ success_count > 0 /\ raised = "none"
          IN  /\ exported_items' = batch.items
              /\ stac_dir' = dir
              /\ uuids' = batch.uuids
              /\ xcall' = [method |-> IF zipped THEN "create_zip_archive"
                                      ELSE IF success_count > 0 THEN "create_collection"
                                      ELSE "export_layer",
                           raised |-> raised # "none"]
              /\ IF zipped
                 THEN \E walk \in Walks(dir) :
                        /\ output_dir' =
                              (HashName(now) :>
                                  [hash |-> SHA256(ReadBack(ArchiveOf(dir, walk))),
                                   filename |-> ZipName(now)])
                              @@ (ZipName(now) :> ArchiveOf(dir, walk)) @@ output_dir
                        /\ zip_runs' = zip_runs \cup
                              {[tree |-> dir, archive |-> ArchiveOf(dir, walk)]}
                 ELSE UNCHANGED <<output_dir, zip_runs>>
              /\ dialog' = [dialog EXCEPT
                    !.accepted = success_count > 0 /\ raised = "none",
                    !.run = Run(selected, batch.attempted, batch.failed,
                                Warnings(batch.failed)
                                \o (IF raised # "none"
                                    THEN <<Message("critical", <<"Export Error">>)>>
                                    ELSE IF success_count > 0
                                    THEN <<Message("information", <<"Export Complete">>)>>
                                    ELSE <<>>),
                                raised)]
              /\ initial_dir' = stac_dir
              /\ UNCHANGED <<now, zcall>>

\* export_layers, lines 422-535.
ExportLayers ==
    /\ ~ dialog.accepted
    /\ LET selected == get_selected_layers
       IN  IF ~ dialog.output_dir
           THEN /\ dialog' = [dialog EXCEPT !.run =
                      Run(selected, <<>>, <<>>,
                          <<Message("warning", <<"Missing Output Directory">>)>>, "none")]
                /\ UNCHANGED <<sessionVars, archiveVars>>
           ELSE IF selected = <<>>
           THEN /\ dialog' = [dialog EXCEPT !.run =
                      Run(selected, <<>>, <<>>,
                          <<Message("warning", <<"No Layers Selected">>)>>, "none")]
                /\ UNCHANGED <<sessionVars, archiveVars>>
           ELSE IF SetupRaises(dialog.iface) # "none"
           THEN /\ dialog' = [dialog EXCEPT !.run =
                      Run(selected, <<>>, <<>>,
                          <<Message("critical", <<"Export Error">>)>>,
                          SetupRaises(dialog.iface))]
                /\ UNCHANGED <<sessionVars, archiveVars>>
           ELSE ExportWithExporter(selected)
    /\ UNCHANGED <<callVars, resolver, agentVars, sanitize_call, item_call>>

\* ----------------------------------------------------- the user at the dialog
\* The user checks or unchecks a layer of the list.
ToggleLayer(i) ==
    /\ ~ dialog.accepted
    /\ i \in 1..Len(dialog.layers)
    /\ dialog' = [dialog EXCEPT
          !.checked = IF i \in @ THEN @ \ {i} ELSE @ \cup {i}, !.run = NoRun]
    /\ UNCHANGED <<callVars, resolver, agentVars, sanitize_call, item_call, sessionVars, archiveVars>>

\* select_output_directory, lines 90-99: a directory is chosen, or the file
\* dialog is cancelled.
select_output_directory(chosen) ==
    /\ ~ dialog.accepted
    /\ dialog' = [dialog EXCEPT !.output_dir = IF chosen THEN TRUE ELSE @,
                                !.run = NoRun]
    /\ UNCHANGED <<callVars, resolver, agentVars, sanitize_call, item_call, sessionVars, archiveVars>>

\* The user switches the 'create ZIP' box.
ToggleCreateZip ==
    /\ ~ dialog.accepted
    /\ dialog' = [dialog EXCEPT !.create_zip = ~ @, !.run = NoRun]
    /\ UNCHANGED <<callVars, resolver, agentVars, sanitize_call, item_call, sessionVars, archiveVars>>

\* auto_save_gnosis_data, lines 346-347: the GNOSIS data was saved and its
\* path is kept for the export.
GnosisDataReady ==
    /\ ~ dialog.accepted
    /\ ~ dialog.gnosis_data_path
    /\ dialog' = [dialog EXCEPT !.gnosis_data_path = TRUE, !.run = NoRun]
    /\ UNCHANGED <<callVars, resolver, agentVars, sanitize_call, item_call, sessionVars, archiveVars>>

\* The visible layers of the project.
ProjectLayers ==
    ArchiveLayers \cup {Layer(<<>>, "vector", <<0, 0, 1, 1>>),
                        Layer(<<"a">>, "other", <<0, 0, 1, 1>>)}

\* COPSTACDialog.__init__, lines 26-54, load_layers and set_default_values:
\* every visible layer is checked, the ZIP box is checked, no output
\* directory and no GNOSIS data yet.
InitExport ==
    /\ InitAgent
    /\ InitCalls
    /\ resolver = ResolverIdle
    /\ sanitize_call = NoSanitizeCall
    /\ item_call = NoItemCall
    /\ exported_items = <<>>
    /\ stac_dir = <<>>
    /\ uuids = 0
    /\ now = 0
    /\ xcall = NoCall
    /\ initial_dir = <<>>
    /\ output_dir = <<>>
    /\ zcall = NoZipCall
    /\ zip_runs = {}
    /\ \E layers \in SeqsUpTo(ProjectLayers, MaxLayers), iface \in BOOLEAN :
          dialog = [layers |-> layers, checked |-> 1..Len(layers),
                    output_dir |-> FALSE, create_zip |-> TRUE, iface |-> iface,
                    gnosis_data_path |-> FALSE, accepted |-> FALSE, run |-> NoRun]

NextExport ==
    \/ \E i \in 1..MaxLayers : ToggleLayer(i)
    \/ \E chosen \in BOOLEAN : select_output_directory(chosen)
    \/ ToggleCreateZip
    \/ GnosisDataReady
    \/ ExportLayers

SpecExport == InitExport /\ [][NextExport]_vars

\* ------------------------------------------------------- query_gnosis_earth
\* Degrees are written in units of 1/10000 degree, so that 85.0511 is a whole
\* number.
LonBound == 1800000      \* 180.0, lines 260 and 262
LatBound == 850511       \* 85.0511, lines 261 and 263
WidthLimit == 1800000    \* 180, line 248
HeightLimit == 900000    \* 90, line 248

PyMax(a, b) == IF a >= b THEN a ELSE b

PyMin(a, b) == IF a <= b THEN a ELSE b

Rectangle(xmin, ymin, xmax, ymax) ==
    [xMinimum |-> xmin, yMinimum |-> ymin, xMaximum |-> xmax, yMaximum |-> ymax]

\* QgsRectangle.set(xMin, yMin, xMax, yMax): the rectangle is normalised after
\* the four values are stored, a minimum above its maximum is swapped with it.
RectangleSet(xmin, ymin, xmax, ymax) ==
    Rectangle(PyMin(xmin, xmax), PyMin(ymin, ymax), PyMax(xmin, xmax), PyMax(ymin, ymax))

\* Lines 245-248: the extent is wider than 180 degrees or higher than 90.
TooLarge(e) ==
    \/ e.xMaximum - e.xMinimum > WidthLimit
    \/ e.yMaximum - e.yMinimum > HeightLimit

\* Lines 259-264: each minimum is raised to the lower bound, each maximum is
\* lowered to the upper bound.
Clamp(e) ==
    RectangleSet(PyMax(-LonBound, e.xMinimum), PyMax(-LatBound, e.yMinimum),
                 PyMin(LonBound, e.xMaximum), PyMin(LatBound, e.yMaximum))

\* The extents of a map canvas in WGS84: a canvas may show the poles and may
\* be panned past the antimeridian.
CanvasLons == {-2000000, -1800000, -900000, 0, 900000, 1800000, 1900000, 2000000}

CanvasLats == {-900000, -860000, -850511, 0, 850511, 860000, 890000, 900000}

CanvasExtents ==
    {e \in [xMinimum : CanvasLons, yMinimum : CanvasLats,
            xMaximum : CanvasLons, yMaximum : CanvasLats] :
        e.xMinimum <= e.xMaximum /\ e.yMinimum <= e.yMaximum}

InitClamp ==
    /\ InitAgent
    /\ resolver = ResolverIdle
    /\ sanitize_call = NoSanitizeCall
    /\ item_call = NoItemCall
    /\ InitSession
    /\ url_call = NoUrlCall
    /\ \E e \in CanvasExtents :
          clamp_call = [NoClampCall EXCEPT !.given = e, !.extent = e]

\* query_gnosis_earth, lines 244-264: the size validation, then the clamping
\* of the extent that is passed on to the agent.
ValidateAndClamp ==
    /\ ~ clamp_call.done
    /\ clamp_call' =
          IF TooLarge(clamp_call.given)
          THEN [clamp_call EXCEPT !.done = TRUE, !.outcome = "too_large"]
          ELSE [clamp_call EXCEPT !.done = TRUE, !.outcome = "clamped",
                                  !.extent = Clamp(clamp_call.given)]
    /\ UNCHANGED <<url_call, resolver, agentVars, sanitize_call, item_call, sessionVars,
                   archiveVars, dialog>>

NextClamp == ValidateAndClamp

SpecClamp == InitClamp /\ [][NextClamp]_vars

\* ------------------------------------------------------------ the agent's URLs
\* The methods class GnosisDGGSAgent defines.
AgentMethods ==
    {"__init__", "query_dggs_data", "query_zone_data", "get_zones_for_extent",
     "get_dggs_zones_for_extent", "transform_extent_to_wgs84", "get_coverage_summary",
     "fetch_and_save_geojson", "log_message", "get_available_dggs_crs_list"}

\* A URL under BASE_URL/collections/COLLECTION: its path below the collection
\* and its query parameters.
Url(path, query) == [path |-> path, query |-> query]

\* Line 147: .../dggs/{dggs_crs}/zones/{zone_id}/data.geojson, no query.
ZoneDataUrl(dggs_crs, zone_id) ==
    Url(<<"dggs", dggs_crs, "zones", zone_id, "data.geojson">>, <<>>)

\* Line 185: .../dggs/{dggs_crs}/zones.geojson?zone-level={zone_level}.
ZonesListUrl(dggs_crs, zone_level) ==
    Url(<<"dggs", dggs_crs, "zones.geojson">>, [p \in {"zone-level"} |-> zone_level])

UrlCallers == {"build_query_url", "query_zone_data", "get_zones_for_extent"}

CrsNames == {"rHEALPix-R12", "H3"}

ZoneNames == {"R05_08", "P44"}

InitUrl ==
    /\ InitAgent
    /\ resolver = ResolverIdle
    /\ sanitize_call = NoSanitizeCall
    /\ item_call = NoItemCall
    /\ InitSession
    /\ clamp_call = NoClampCall
    /\ \E method \in UrlCallers, e \in Extents, crs \in CrsNames, z \in ZoneNames :
          url_call = [done |-> FALSE, method |-> method, raised |-> "none",
                      extent |-> <<e>>, dggs_crs |-> crs, zone_id |-> z, url |-> <<>>]

\* agent.<method>(...) up to the URL it builds: a name the class does not
\* define raises AttributeError.
BuildUrl ==
    /\ ~ url_call.done
    /\ url_call' =
          IF url_call.method \notin AgentMethods
          THEN [url_call EXCEPT !.done = TRUE, !.raised = "AttributeError"]
          ELSE [url_call EXCEPT
                  !.done = TRUE,
                  !.url = IF url_call.method = "query_zone_data"
                          THEN <<ZoneDataUrl(url_call.dggs_crs, url_call.zone_id)>>
                          ELSE <<ZonesListUrl(url_call.dggs_crs, 2)>>]
    /\ UNCHANGED <<clamp_call, resolver, agentVars, sanitize_call, item_call, sessionVars,
                   archiveVars, dialog>>

NextUrl == BuildUrl

SpecUrl == InitUrl /\ [][NextUrl]_vars

\* ---------------------------------------------------- auto_save_gnosis_data
\* The file of the agent's state is here the temporary file
\* {tempdir}/gnosis_srtm_dggs_temp.geojson, the same path at every call
\* (lines 338-339); fetch_and_save_geojson runs as in SpecSave up to its
\* return, and the dialog goes on from there: when the call returns False at
\* line 356 (SaveAfterQuery) gnosis_data_path is left as it is.

\* Lines 358-369 of the agent, then lines 346-347 of the dialog: the write, and
\* gnosis_data_path set to the temporary file when the call returned True.
AutoSaveWrite(outcome, k) ==
    /\ op = "save" /\ pc = "write"
    /\ k < Len(Dump(qresult))
    /\ file' = FileAfterWrite(file, Dump(qresult), outcome, k)
    /\ saved' = (outcome = "ok")
    /\ last_error' = IF outcome = "ok" THEN last_error ELSE Error("save", qid)
    /\ EndOp
    /\ dialog' = [dialog EXCEPT !.gnosis_data_path = IF outcome = "ok" THEN TRUE ELSE @]
    /\ UNCHANGED <<resolver, op, nops, qid, extent, qresult, qn, s_result, summary,
                   file_before, cancel, sanitize_call, item_call, sessionVars, archiveVars,
                   callVars>>

\* The dialog is open on a project with a map canvas; nothing was queried.
InitGnosis ==
    /\ InitAgent
    /\ InitCalls
    /\ resolver = ResolverIdle
    /\ sanitize_call = NoSanitizeCall
    /\ item_call = NoItemCall
    /\ exported_items = <<>>
    /\ stac_dir = <<>>
    /\ uuids = 0
    /\ now = 0
    /\ xcall = NoCall
    /\ initial_dir = <<>>
    /\ output_dir = <<>>
    /\ zcall = NoZipCall
    /\ zip_runs = {}
    /\ dialog = [NoDialog EXCEPT !.iface = TRUE, !.create_zip = TRUE]

NextGnosis ==
    \/ \E e \in QueryExtents, zid \in OptId : StartSave(e, zid)
    \/ \E r \in ListingResponses : Resolve(r)
    \/ \E r \in ZoneResponses : FetchZone(r)
    \/ SaveAfterQuery
    \/ \E o \in WriteOutcomes, k \in 0..(1 + MaxZones * MaxFeatures) : AutoSaveWrite(o, k)

SpecGnosis == InitGnosis /\ [][NextGnosis]_vars

\* ------------------------------------------- sessions on one output directory
\* STACCOPExporter.__init__, lines 23-39, on an output directory an earlier
\* exporter has used: os.makedirs(..., exist_ok=True) keeps what is there, and
\* exported_items starts empty.  The later session starts at a later instant.
NewExporter ==
    /\ zcall.pc = "idle"
    /\ now < MaxTime
    /\ now' = now + 1
    /\ exported_items' = <<>>
    /\ initial_dir' = stac_dir
    /\ xcall' = NoCall
    /\ UNCHANGED <<stac_dir, uuids>>
    /\ UNCHANGED <<idleVars, archiveVars>>

SessionsLayers == {Layer(<<"a">>, "vector", <<0, 0, 1, 1>>)}

NextSessions ==
    \/ \E layer \in SessionsLayers, outcome \in {"ok", "dump_error"} :
          ExportLayerCall(layer, outcome)
    \/ CreateCollectionCall("ok")
    \/ NewExporter
    \/ ZipOpen
    \/ \E path \in DOMAIN stac_dir : ZipWrite(path)
    \/ ZipClose
    \/ ZipHash

SpecSessions == InitExporter /\ [][NextSessions]_vars

\* ------------------------------------------------------------------ claims
\* The features the logged answers carried, answer after answer.
RECURSIVE AnswerFeatures(_)
AnswerFeatures(answers) ==
    IF answers = <<>> THEN <<>>
    ELSE (IF Head(answers).kind = "ok" THEN Head(answers).features ELSE <<>>)
         \o AnswerFeatures(Tail(answers))

\* The ids of the listed zones that have one, in listing order.
RECURSIVE ListedIds(_)
ListedIds(features) ==
    IF features = <<>> THEN <<>>
    ELSE (IF Head(features).id = Absent THEN <<>> ELSE <<Val(Head(features).id)>>)
         \o ListedIds(Tail(features))

\* s is t with some elements left out, the others in t's order.
IsSubsequence(s, t) ==
    \E pick \in [1..Len(s) -> 1..Len(t)] :
        /\ \A i \in 1..Len(s) : s[i] = t[pick[i]]
        /\ \A i, j \in 1..Len(s) : i < j => pick[i] < pick[j]

QueryReturned == pc = "returned"

SummaryReturned == op = "summary" /\ pc = "idle"

SaveReturned == op = "save" /\ pc = "idle"

\* C1: a zone-data request answered 404 never ends the aggregation.  (a) When a
\* query has returned without a result, the last answer it received was not a
\* 404.  (b) When zones were resolved and every answer was a document with
\* features or a 404, at least one of them a 404, the query has fetched every
\* resolved zone and returned a FeatureCollection holding the features of the
\* documents only, which is the empty collection when every zone answered 404.
\* (c) get_coverage_summary reports success whenever its query returned a
\* collection.
C1_NotFoundNeverAborts ==
    /\ (QueryReturned /\ qresult.type = "None" /\ fetched # <<>>)
          => fetched[Len(fetched)].kind # "http404"
    /\ (/\ QueryReturned
        /\ zones_to_query # <<>>
        /\ \A i \in 1..Len(fetched) : fetched[i].kind \in {"ok", "http404"}
        /\ \E i \in 1..Len(fetched) : fetched[i].kind = "http404")
          => /\ qresult.type = "FeatureCollection"
             /\ Len(fetched) = Len(zones_to_query)
             /\ qresult.features = AnswerFeatures(fetched)
    /\ (SummaryReturned /\ s_result.type = "FeatureCollection") => summary.success

\* C1's case: the first of two zones answered 404, the second was still fetched
\* and its features are the collection.
C1_Witness ==
    /\ op = "summary" /\ qn = 1 /\ QueryReturned
    /\ Len(fetched) = 2
    /\ fetched[1].kind = "http404"
    /\ fetched[2].kind = "ok" /\ fetched[2].features # <<>>
    /\ qresult = FeatureCollection(fetched[2].features)

\* C2: when a zone-data request of a query failed hard (connection failure,
\* timeout, a status other than 404, a body that is not JSON), the query
\* returns no FeatureCollection and records an error of its own.
C2_HardErrorAborts ==
    (QueryReturned /\ \E i \in 1..Len(fetched) : fetched[i].kind \in HardKinds)
        => /\ qresult.type = "None"
           /\ last_error.kind # "None"
           /\ last_error.query = qid

\* C3: a query that resolved its zones reports 'no zones found' only when the
\* zones-list document was fetched and decoded; a failed zones-list request
\* is reported as something else.
C3_NoZonesOnlyForDecodedListing ==
    (/\ QueryReturned
     /\ listing.kind # "none"
     /\ last_error = Error("no_zones", qid))
        => listing.kind = "ok"

\* C4: the FeatureCollection a query returns is the concatenation of the
\* features of the documents its zone-data requests received, one request per
\* zone of zones_to_query in that order, each document's features in the
\* document's order; and the resolved zones are listed zones in listing order.
C4_ConcatenationInZoneOrder ==
    (QueryReturned /\ qresult.type = "FeatureCollection")
        => /\ Len(fetched) = Len(zones_to_query)
           /\ \A i \in 1..Len(fetched) : fetched[i].zone = zones_to_query[i]
           /\ qresult.features = AnswerFeatures(fetched)
           /\ listing.kind = "ok"
                 => IsSubsequence(zones_to_query, ListedIds(listing.features))

\* C4's case: two different zones, each answering two features in its own
\* order, and the collection holds the four in that order.
C4_Witness ==
    /\ QueryReturned
    /\ listing.kind = "ok"
    /\ zones_to_query = <<"B", "A">>
    /\ Len(fetched) = 2
    /\ fetched[1].features = <<FeatureA, FeatureB>>
    /\ fetched[2].features = <<FeatureB, FeatureA>>
    /\ qresult.features = <<FeatureA, FeatureB, FeatureB, FeatureA>>

\* The bound a zone feature carries for one side, under its short or long key.
ListedBound(short, long) == IF short # Absent THEN short ELSE long

ListedBox(f) ==
    [min_lat |-> ListedBound(f.min_lat, f.min_latitude),
     max_lat |-> ListedBound(f.max_lat, f.max_latitude),
     min_lon |-> ListedBound(f.min_lon, f.min_longitude),
     max_lon |-> ListedBound(f.max_lon, f.max_longitude)]

HasAllBounds(f) ==
    LET b == ListedBox(f)
    IN  b.min_lat # Absent /\ b.max_lat # Absent /\ b.min_lon # Absent /\ b.max_lon # Absent

\* The closed overlap test: touching boxes overlap.
Overlaps(e, b) ==
    /\ e.xMinimum <= Val(b.max_lon) /\ Val(b.min_lon) <= e.xMaximum
    /\ e.yMinimum <= Val(b.max_lat) /\ Val(b.min_lat) <= e.yMaximum

\* The ids of the listed zones that a choice (one yes or no per listed zone)
\* takes, in listing order.
RECURSIVE Chosen(_, _, _)
Chosen(features, take, i) ==
    IF i > Len(features) THEN <<>>
    ELSE (IF take[i] THEN <<Val(features[i].id)>> ELSE <<>>)
         \o Chosen(features, take, i + 1)

\* The result is the listing with some zones left out: `take` says which
\* zones are in it.
ResultTakes(take) ==
    /\ \A i \in 1..Len(resolver.zones_data) :
          take[i] => resolver.zones_data[i].id # Absent
    /\ resolver.matching_zones = Chosen(resolver.zones_data, take, 1)

\* C5: a listed zone with an id and all four bounds present, whatever their
\* values, is in the result exactly when its box overlaps the extent.
C5_BoundedZoneIffOverlap ==
    resolver.done =>
        \E take \in [1..Len(resolver.zones_data) -> BOOLEAN] :
            /\ ResultTakes(take)
            /\ \A i \in 1..Len(resolver.zones_data) :
                  LET f == resolver.zones_data[i]
                  IN  (f.id # Absent /\ HasAllBounds(f))
                          => (take[i] <=> Overlaps(resolver.extent, ListedBox(f)))

\* C6: a listed zone with an id and at least one bound missing is in the
\* result, whatever the extent and whatever its other bounds.
C6_UnboundedZoneIncluded ==
    resolver.done =>
        \E take \in [1..Len(resolver.zones_data) -> BOOLEAN] :
            /\ ResultTakes(take)
            /\ \A i \in 1..Len(resolver.zones_data) :
                  LET f == resolver.zones_data[i]
                  IN  (f.id # Absent /\ ~ HasAllBounds(f)) => take[i]

\* C6's case: a zone whose latitude bounds lie apart from the extent and whose
\* longitude bounds are missing is returned.
C6_Witness ==
    /\ resolver.done
    /\ Len(resolver.zones_data) = 1
    /\ LET f == resolver.zones_data[1]
       IN  /\ f.id = {"A"}
           /\ f.min_lat = {2} /\ f.max_lat = {2}
           /\ f.min_lon = Absent /\ f.min_longitude = Absent
           /\ f.max_lon = Absent /\ f.max_longitude = Absent
    /\ resolver.extent.yMaximum = 1
    /\ resolver.matching_zones = <<"A">>

\* C7: a successful summary's zones and zone_count are the sorted distinct zone
\* ids referenced by the features its feature_count counts.
C7_ZonesOfTheCountedFeatures ==
    (SummaryReturned /\ summary.success)
        => /\ summary.feature_count = Len(s_result.features)
           /\ summary.zones = Sorted(ReferencedZones(s_result.features))
           /\ summary.zone_count = Cardinality(ReferencedZones(s_result.features))

\* C8: when the query of get_coverage_summary returned nothing, the summary
\* has success = false, both counts 0 and the error that this very query
\* recorded; when it returned a collection, success = true and error = null.
C8_SummaryReportsItsOwnFailure ==
    SummaryReturned =>
        IF s_result.type = "None"
        THEN /\ ~ summary.success
             /\ summary.zone_count = 0
             /\ summary.feature_count = 0
             /\ summary.error.kind # "None"
             /\ summary.error.query = qid
        ELSE /\ summary.success
             /\ summary.error = NoError

\* C8's case: a summary that fails after an earlier one succeeded.
C8_Witness ==
    /\ SummaryReturned
    /\ nops = 2 /\ qid = 3
    /\ ~ summary.success
    /\ summary.error = Error("no_zones", 3)

\* C9: after a fetch_and_save_geojson that failed, the output path holds what
\* it held before, or no file.
C9_FailedSaveLeavesNoPartialFile ==
    (SaveReturned /\ ~ saved) => (file = file_before \/ ~ file.exists)

\* C10: once Cancel was pressed between two zone fetches of a query, that
\* query fetches no further zone and returns no FeatureCollection.
C10_CancelStopsTheAggregation ==
    (/\ cancel.requested
     /\ cancel.query = qid
     /\ 0 < cancel.fetched /\ cancel.fetched < Len(zones_to_query))
        => /\ Len(fetched) = cancel.fetched
           /\ qresult.type = "None"

\* What the rule of the interface section asks of a name: every character
\* other than a letter, a digit, '-' or '_' replaced by '_'.
RuleSubstituted(name) ==
    [i \in 1..Len(name) |->
        IF name[i] \in {"a", "B", "7", "-", "_"} THEN name[i] ELSE "_"]

\* The rule's prefix is due when the first character after substitution is not
\* a letter or a digit, which is also so when there is no first character.
RuleNeedsPrefix(name) ==
    \/ name = <<>>
    \/ RuleSubstituted(name)[1] \notin {"a", "B", "7"}

\* C19: for every layer name, the empty name included, sanitize_id returns the
\* name with every character other than an alphanumeric, '-' or '_' replaced
\* by '_', lower-cased, prefixed with 'item_' when the first character after
\* substitution is not alphanumeric; the result begins with an alphanumeric.
C19_SanitizeEveryName ==
    sanitize_call.done =>
        LET name == sanitize_call.name
            value == sanitize_call.value
            off == IF RuleNeedsPrefix(name) THEN 5 ELSE 0
        IN  /\ ~ sanitize_call.raised
            /\ Len(value) = off + Len(name)
            /\ off = 5 => SubSeq(value, 1, 5) = <<"i", "t", "e", "m", "_">>
            /\ \A i \in 1..Len(name) :
                  value[off + i] =
                      (IF RuleSubstituted(name)[i] = "B" THEN "b"
                       ELSE RuleSubstituted(name)[i])
            /\ value[1] \in {"a", "b", "7", "i"}

\* C15: for each of the six COP fields, the properties of the item built by
\* create_stac_item have the key cop:<field> exactly when the metadata has a
\* value for the field that is neither null nor the empty string, and then
\* with that very value; the properties have no other cop:* key, and none of
\* them is null or the empty string.
C15_CopPropertyIffNonEmpty ==
    item_call.done =>
        LET m == item_call.cop_metadata
            properties == item_call.item.properties
        IN  /\ \A f \in CopFields :
                  /\ CopKey[f] \in DOMAIN properties
                        <=> (f \in DOMAIN m /\ m[f] # {} /\ m[f] # {""})
                  /\ CopKey[f] \in DOMAIN properties => properties[CopKey[f]] = m[f]
            /\ DOMAIN properties \subseteq
                  {"datetime", "title"} \cup {CopKey[f] : f \in CopFields}
            /\ \A f \in CopFields :
                  CopKey[f] \in DOMAIN properties
                      => properties[CopKey[f]] # {} /\ properties[CopKey[f]] # {""}

\* C15's case: the mission is the empty string, the releasability is null, the
\* provider is missing and the classification is a word; the item has
\* cop:classification and none of the other three.
C15_Witness ==
    /\ item_call.done
    /\ DOMAIN item_call.cop_metadata = {"mission", "classification", "releasability"}
    /\ item_call.cop_metadata["mission"] = {""}
    /\ item_call.cop_metadata["releasability"] = {}
    /\ item_call.cop_metadata["classification"] = {"OP-TEST"}
    /\ DOMAIN item_call.item.properties = {"datetime", "title", "cop:classification"}
    /\ item_call.item.properties["cop:classification"] = {"OP-TEST"}

\* The last exporter call was this method and it returned.
Returned1(method) == xcall.method = method /\ ~ xcall.raised

\* What a file of the export directory holds, when it was written whole.
Holds(path, document) ==
    /\ path \in DOMAIN stac_dir
    /\ stac_dir[path].whole
    /\ stac_dir[path].content = <<document>>

C12_CollectionLinksInExportOrder ==
    Returned1("create_collection") =>
        /\ CollectionPath \in DOMAIN stac_dir
        /\ stac_dir[CollectionPath].whole
        /\ LET links == stac_dir[CollectionPath].content[1].links
           IN  /\ Len(links) = 2 + Len(exported_items)
               /\ links[1] = [rel |-> "self", href |-> CollectionPath]
               /\ links[2] = [rel |-> "root", href |-> CollectionPath]
               /\ \A i \in 1..Len(exported_items) :
                     /\ links[2 + i].rel = "item"
                     /\ links[2 + i].href = Path(".", exported_items[i].id, "json")

\* C12's case: a collection over two items of different layers.
C12_Witness ==
    /\ Returned1("create_collection")
    /\ Len(exported_items) = 2
    /\ exported_items[1].properties["title"] = {<<"a", "_">>}
    /\ exported_items[2].properties["title"] = {<<"a">>}
    /\ Len(stac_dir[CollectionPath].content[1].links) = 4
    /\ stac_dir[CollectionPath].content[1].links[3].href.stem = exported_items[1].id
    /\ stac_dir[CollectionPath].content[1].links[4].href.stem = exported_items[2].id

\* C13: after n successful export_layer calls, whatever the layer names, the
\* export directory holds n item files, each holding the item written for
\* its layer.
C13_OneItemFilePerExportedLayer ==
    /\ \A i \in 1..Len(exported_items) :
          \E path \in DOMAIN stac_dir :
              path.dir = "." /\ path.ext = "json" /\ Holds(path, exported_items[i])
    /\ Cardinality({path \in DOMAIN stac_dir :
                      /\ path.dir = "." /\ path.ext = "json"
                      /\ \E i \in 1..Len(exported_items) :
                            Holds(path, exported_items[i])})
          = Len(exported_items)

\* The items of exported_items taken in another order.
Reordered(items, perm) == [i \in 1..Len(items) |-> items[perm[i]]]

\* C14: the spatial bbox that create_collection wrote covers every item's
\* bbox and each of its four values is the value of some item (so it is the
\* smallest such box); computed over the items in any other order it is the
\* same; it is [-180,-90,180,90] when no item was exported, and [-1,-1,1,1]
\* for the item boxes [0,0,1,1] and [-1,-1,0,0].
C14_SpatialBboxIsTheUnion ==
    Returned1("create_collection")
        => LET bbox == stac_dir[CollectionPath].content[1].extent.spatial.bbox[1]
               n == Len(exported_items)
           IN  /\ stac_dir[CollectionPath].content[1].extent.spatial.bbox = <<bbox>>
               /\ \A i \in 1..n :
                     /\ bbox[1] <= exported_items[i].bbox[1]
                     /\ bbox[2] <= exported_items[i].bbox[2]
                     /\ bbox[3] >= exported_items[i].bbox[3]
                     /\ bbox[4] >= exported_items[i].bbox[4]
               /\ n > 0 =>
                     \A k \in 1..4 : \E i \in 1..n : bbox[k] = exported_items[i].bbox[k]
               /\ \A perm \in Permutations(1..n) :
                     SpatialBbox(Reordered(exported_items, perm)) = bbox
               /\ n = 0 => bbox = <<-180, -90, 180, 90>>
               /\ {exported_items[i].bbox : i \in 1..n} = {<<0, 0, 1, 1>>, <<-1, -1, 0, 0>>}
                     => bbox = <<-1, -1, 1, 1>>

\* C14's case: the collection over the boxes [0,0,1,1] and [-1,-1,0,0],
\* exported in this order.
C14_Witness ==
    /\ Returned1("create_collection")
    /\ Len(exported_items) = 2
    /\ exported_items[1].bbox = <<0, 0, 1, 1>>
    /\ exported_items[2].bbox = <<-1, -1, 0, 0>>
    /\ stac_dir[CollectionPath].content[1].extent.spatial.bbox = <<<<-1, -1, 1, 1>>>>

\* C17: create_zip_archive hashes the archive once it is closed and nothing
\* writes to it afterwards.  Whenever no archive is being built, every digest
\* file names an archive of output_dir that is closed and records the SHA-256
\* of that archive's bytes; and the hash a call returned is the SHA-256 of the
\* archive it wrote and the one in the digest file of the same timestamp.
C17_HashOfTheClosedArchive ==
    zcall.pc = "idle" =>
        /\ \A name \in DOMAIN output_dir :
              name.kind = "zip.sha256" =>
                  LET digest == output_dir[name]
                  IN  /\ digest.filename = ZipName(name.timestamp)
                      /\ digest.filename \in DOMAIN output_dir
                      /\ output_dir[digest.filename].closed
                      /\ digest.hash = [sha256 |-> output_dir[digest.filename]]
        /\ Returned1("create_zip_archive") =>
              /\ HashName(zcall.timestamp) \in DOMAIN output_dir
              /\ output_dir[HashName(zcall.timestamp)].hash = zcall.hash_value
              /\ zcall.hash_value = [sha256 |-> output_dir[ZipName(zcall.timestamp)]]

\* C17's case: an archive of an item file, the collection and an asset was
\* built and its digest file written.
C17_Witness ==
    /\ Returned1("create_zip_archive")
    /\ Len(output_dir[ZipName(zcall.timestamp)].entries) = 3
    /\ output_dir[ZipName(zcall.timestamp)].entries[3].arcname.dir = "assets"
    /\ CollectionPath \in DOMAIN stac_dir
    /\ output_dir[HashName(zcall.timestamp)].hash.sha256.closed

\* C18: two create_zip_archive runs that walked the same tree (the same files
\* with the same contents and modification times) wrote archives with the
\* same content, whenever each run happened.
C18_SameTreeSameArchive ==
    \A r1, r2 \in zip_runs : r1.tree = r2.tree => r1.archive = r2.archive

\* C20: exported_items only grows by appending.  A step that changes it is an
\* export_layer call that returned and appended one item, the one with the id
\* drawn in that call; an export_layer call that raised leaves it unchanged;
\* so do create_collection and every step of create_zip_archive.
C20_ItemsOnlyAppended ==
    [][/\ exported_items' # exported_items
            => /\ uuids' = uuids + 1
               /\ xcall'.method = "export_layer" /\ ~ xcall'.raised
               /\ Len(exported_items') = Len(exported_items) + 1
               /\ SubSeq(exported_items', 1, Len(exported_items)) = exported_items
       /\ (uuids' # uuids /\ xcall'.raised) => exported_items' = exported_items
       /\ (uuids' # uuids /\ ~ xcall'.raised)
            => /\ Len(exported_items') = Len(exported_items) + 1
               /\ exported_items'[Len(exported_items')].id = UuidText(uuids')
       /\ uuids' = uuids => exported_items' = exported_items]_vars

\* C20's case: after a successful export, an export_layer call whose item
\* write raised and left a broken file; exported_items holds the first item
\* only, also after a collection and an archive were made.
C20_Witness ==
    /\ uuids = 2
    /\ Len(exported_items) = 1
    /\ exported_items[1].id = UuidText(1)
    /\ \E path \in DOMAIN stac_dir : path.ext = "json" /\ ~ stac_dir[path].whole
    /\ Holds(CollectionPath, Collection("op-test", exported_items, now))
    /\ Returned1("create_zip_archive")


C21_ClampedExtentInsideBounds ==
    (clamp_call.done /\ clamp_call.outcome = "clamped") =>
        LET e == clamp_call.extent
        IN  /\ -LonBound <= e.xMinimum /\ e.xMinimum <= LonBound
            /\ -LonBound <= e.xMaximum /\ e.xMaximum <= LonBound
            /\ -LatBound <= e.yMinimum /\ e.yMinimum <= LatBound
            /\ -LatBound <= e.yMaximum /\ e.yMaximum <= LatBound
            /\ e.xMinimum <= e.xMaximum
            /\ e.yMinimum <= e.yMaximum


\* C22: the agent offers build_query_url(extent, dggs_crs, zone_id), and the
\* URL it returns carries the extent as bbox=, dggs-crs=<the given DGGS CRS>,
\* zone-id=<the given zone id> and f=json.
C22_BuildQueryUrlParameters ==
    (url_call.done /\ url_call.method = "build_query_url") =>
        /\ url_call.raised = "none"
        /\ url_call.url # <<>>
        /\ LET query == url_call.url[1].query
           IN  /\ {"bbox", "dggs-crs", "zone-id", "f"} \subseteq DOMAIN query
               /\ <<query["bbox"]>> = url_call.extent
               /\ query["dggs-crs"] = url_call.dggs_crs
               /\ query["zone-id"] = url_call.zone_id
               /\ query["f"] = "json"


\* A link names the item file of an item: the file exists, was written whole
\* and holds an item with that id.
ReachesItem(href, id) ==
    /\ href \in DOMAIN stac_dir
    /\ stac_dir[href].whole
    /\ stac_dir[href].content[1].id = id

\* C24: the self link of every exported item names the file export_layer
\* wrote that item to, and every item link of a collection.json that
\* create_collection wrote leads to an existing item file whose id is the
\* linked item's id.
C24_ItemLinksReachItemFiles ==
    /\ \A i \in 1..Len(exported_items) :
          \A l \in 1..Len(exported_items[i].links) :
              exported_items[i].links[l].rel = "self" =>
                  ReachesItem(exported_items[i].links[l].href, exported_items[i].id)
    /\ Returned1("create_collection") =>
          \A i \in 1..Len(exported_items) :
              ReachesItem(stac_dir[CollectionPath].content[1].links[2 + i].href,
                          exported_items[i].id)


\* C27: whenever the dialog's gnosis_data_path is set, the temporary file
\* holds a complete FeatureCollection, also after a later query whose fetch or
\* save to the same path failed.
C27_GnosisPathNamesACompleteFile ==
    dialog.gnosis_data_path => IsDocument(file)


\* A layer export_layer can export: a vector or raster layer whose name
\* sanitize_id accepts.
Exportable(layer) ==
    layer.kind \in {"vector", "raster"} /\ ~ sanitize_id(layer.name).raised

\* C25: when export_layers has run with an output directory set and a selected
\* layer that can be exported, and neither that layer's export nor the
\* collection's write met an error, the run has ended with the layer's item
\* written, a collection.json that lists it, and the dialog accepted.
C25_ExportEndsAccepted ==
    \A i \in 1..Len(dialog.run.selected) :
        (/\ dialog.run.done
         /\ dialog.output_dir
         /\ Exportable(dialog.run.selected[i])
         /\ \A f \in 1..Len(dialog.run.failed) :
               dialog.run.failed[f] # dialog.run.selected[i]
         /\ dialog.run.raised # "create_collection")
            => /\ dialog.accepted
               /\ \E n \in 1..Len(exported_items) :
                     /\ exported_items[n].properties["title"] = {dialog.run.selected[i].name}
                     /\ \E path \in DOMAIN stac_dir : Holds(path, exported_items[n])
                     /\ Holds(CollectionPath, Collection("op-test", exported_items, now))


\* The files of the export directory the current exporter has written: those
\* that were not there when it was made, or have changed since.
WrittenBySession ==
    {path \in DOMAIN stac_dir :
        path \notin DOMAIN initial_dir \/ stac_dir[path] # initial_dir[path]}

\* C26: the archive create_zip_archive returned holds exactly the files the
\* current exporter session wrote; no file an earlier session left under
\* stac_cop_export is in it.
C26_ArchiveOfTheSessionOnly ==
    (zcall.pc = "idle" /\ Returned1("create_zip_archive")) =>
        LET entries == output_dir[ZipName(zcall.timestamp)].entries
        IN  {entries[i].arcname : i \in 1..Len(entries)} = WrittenBySession


====
